---- MODULE Spec2Model ----
(***************************************************************************)
(* A model of removepii.py: the detection-and-redaction pipeline            *)
(* (getNE, getIDInfo, cleanString, maskDirectories, mask_directory,         *)
(* cleanFile).  A text is a sequence of one-character strings, so that      *)
(* str.replace, the three identifier patterns and the path pattern work on  *)
(* characters exactly as the Python code does.                              *)
(***************************************************************************)
EXTENDS Integers, Sequences, FiniteSets, TLC

\* ------------------------------------------------------------ characters

UpperSeq == <<"A","B","C","D","E","F","G","H","I","J","K","L","M",
              "N","O","P","Q","R","S","T","U","V","W","X","Y","Z">>

LowerSeq == <<"a","b","c","d","e","f","g","h","i","j","k","l","m",
              "n","o","p","q","r","s","t","u","v","w","x","y","z">>

Letter == {UpperSeq[i] : i \in 1..26} \cup {LowerSeq[i] : i \in 1..26}

Digit == {"0","1","2","3","4","5","6","7","8","9"}

\* \s of the re module (the characters of it a text of the model can hold)
Space == {" ", "\t", "\n", "\r", "\f"}

\* the complement of [^ \n\r\t] in the path pattern
PathStop == {" ", "\n", "\r", "\t"}

\* the placeholder "XXXXX"
Placeholder == <<"X","X","X","X","X">>

\* str.lower() on one character
Lower(c) ==
  IF \E i \in 1..26 : UpperSeq[i] = c
  THEN LowerSeq[CHOOSE i \in 1..26 : UpperSeq[i] = c]
  ELSE c

\* str.lower()
LowerStr(s) == [i \in 1..Len(s) |-> Lower(s[i])]

\* str.strip(): leading and trailing whitespace removed
Strip(s) ==
  LET keep == {i \in 1..Len(s) : s[i] \notin Space}
  IN IF keep = {} THEN <<>>
     ELSE LET lo == CHOOSE i \in keep : \A j \in keep : i <= j
              hi == CHOOSE i \in keep : \A j \in keep : j <= i
          IN SubSeq(s, lo, hi)

\* old occurs in s at index i
OccursAt(s, old, i) ==
  /\ i + Len(old) - 1 <= Len(s)
  /\ \A k \in 1..Len(old) : s[i + k - 1] = old[k]

\* old occurs somewhere in s
Occurs(s, old) == \E i \in 1..Len(s) : OccursAt(s, old, i)

RECURSIVE ReplaceFrom(_, _, _, _)
ReplaceFrom(s, old, new, i) ==
  IF i > Len(s) THEN <<>>
  ELSE IF OccursAt(s, old, i)
       THEN new \o ReplaceFrom(s, old, new, i + Len(old))
       ELSE <<s[i]>> \o ReplaceFrom(s, old, new, i + 1)

RECURSIVE Interleave(_, _, _)
Interleave(s, new, i) ==
  IF i > Len(s) THEN new ELSE new \o <<s[i]>> \o Interleave(s, new, i + 1)

\* str.replace(old, new): every non-overlapping occurrence, leftmost first
Replace(s, old, new) ==
  IF old = <<>> THEN Interleave(s, new, 1) ELSE ReplaceFrom(s, old, new, 1)

RECURSIVE SplitFrom(_, _, _, _)
SplitFrom(s, sep, i, cur) ==
  IF i > Len(s) THEN <<cur>>
  ELSE IF s[i] = sep THEN <<cur>> \o SplitFrom(s, sep, i + 1, <<>>)
       ELSE SplitFrom(s, sep, i + 1, Append(cur, s[i]))

\* str.split(sep) for a one-character separator
Split(s, sep) == SplitFrom(s, sep, 1, <<>>)

RECURSIVE Join(_, _)
\* sep.join(parts)
Join(parts, sep) ==
  IF Len(parts) = 0 THEN <<>>
  ELSE IF Len(parts) = 1 THEN parts[1]
       ELSE parts[1] \o sep \o Join(Tail(parts), sep)

\* ------------------------------------------------- getIDInfo: the patterns

\* \d{n} at index i
Digits(t, i, n) == \A k \in 0..(n - 1) : i + k <= Len(t) /\ t[i + k] \in Digit

\* the number of consecutive characters of class cls from index i on
RECURSIVE Run(_, _, _)
Run(t, i, cls) == IF i <= Len(t) /\ t[i] \in cls THEN 1 + Run(t, i + 1, cls) ELSE 0

Min(a, b) == IF a <= b THEN a ELSE b

\* (\s|-|\.) at index i
SepAt(t, i) == i <= Len(t) /\ t[i] \in (Space \cup {"-", "."})

\* (\d{3})(\s|-|\.)(\d{4}) at index i: the exchange, a separator that is
\* required, the line number
CoreAt(t, i) == Digits(t, i, 3) /\ SepAt(t, i + 3) /\ Digits(t, i + 4, 4)

\* (\s|-|\.)? then the core, from index i: the index of the last character
\* matched, 0 when neither way matches.  The optional separator is greedy:
\* it is tried before its absence.
SepCoreEnd(t, i) ==
  IF SepAt(t, i) /\ CoreAt(t, i + 1) THEN i + 8
  ELSE IF CoreAt(t, i) THEN i + 7
  ELSE 0

\* \s*(\d{2,5}) from index i: the index of the last digit, 0 when none
ExtDigitsEnd(t, i) ==
  LET j == i + Run(t, i, Space)
      n == Run(t, j, Digit)
  IN IF n >= 2 THEN j + Min(n, 5) - 1 ELSE 0

\* (\s*(ext|x|ext.)\s*(\d{2,5}))? after index e (the end of the core): the
\* index of the last character of the match.  The alternatives are tried in
\* the order written; the dot of "ext." is any character but a newline.
ExtEnd(t, e) ==
  LET p  == e + 1 + Run(t, e + 1, Space)
      a1 == IF OccursAt(t, <<"e","x","t">>, p) THEN ExtDigitsEnd(t, p + 3) ELSE 0
      a2 == IF OccursAt(t, <<"x">>, p) THEN ExtDigitsEnd(t, p + 1) ELSE 0
      a3 == IF OccursAt(t, <<"e","x","t">>, p) /\ p + 3 <= Len(t) /\ t[p + 3] # "\n"
            THEN ExtDigitsEnd(t, p + 4) ELSE 0
  IN IF a1 > 0 THEN a1 ELSE IF a2 > 0 THEN a2 ELSE IF a3 > 0 THEN a3 ELSE e

\* the PHONE pattern at index i: the index of the last character matched, 0
\* when it does not match at i.  (\d{3}|\(\d{3}\))? is greedy and ordered:
\* three digits, then three digits in parentheses, then no area code.
PhoneMatchEnd(t, i) ==
  LET a1 == IF Digits(t, i, 3) THEN SepCoreEnd(t, i + 3) ELSE 0
      a2 == IF OccursAt(t, <<"(">>, i) /\ Digits(t, i + 1, 3) /\ OccursAt(t, <<")">>, i + 4)
            THEN SepCoreEnd(t, i + 5) ELSE 0
      a3 == SepCoreEnd(t, i)
      c  == IF a1 > 0 THEN a1 ELSE IF a2 > 0 THEN a2 ELSE a3
  IN IF c = 0 THEN 0 ELSE ExtEnd(t, c)

\* [a-zA-Z0-9._%+-]
EmailLocal == Letter \cup Digit \cup {".", "_", "%", "+", "-"}

\* [a-zA-Z0-9.-]
EmailDomain == Letter \cup Digit \cup {".", "-"}

\* the EMAIL pattern at index i.  The local part and the domain are greedy;
\* the domain gives characters back until "." and two to four letters follow.
EmailMatchEnd(t, i) ==
  LET n  == Run(t, i, EmailLocal)
      at == i + n
      d0 == at + 1
      m  == Run(t, d0, EmailDomain)
      ks == {k \in (d0 + 1)..(d0 + m - 1) : t[k] = "." /\ Run(t, k + 1, Letter) >= 2}
  IN IF n = 0 \/ ~OccursAt(t, <<"@">>, at) \/ ks = {} THEN 0
     ELSE LET k == CHOOSE x \in ks : \A y \in ks : y <= x
          IN k + Min(Run(t, k + 1, Letter), 4)

\* the SSN pattern at index i, with every negative lookahead dropped
SSNShapeAt(t, i) ==
  /\ Digits(t, i, 3) /\ OccursAt(t, <<"-">>, i + 3)
  /\ Digits(t, i + 4, 2) /\ OccursAt(t, <<"-">>, i + 6)
  /\ Digits(t, i + 7, 4)

\* (?!666|000|9\d{2}) at index i
AreaLookahead(t, i) ==
  /\ ~OccursAt(t, <<"6","6","6">>, i)
  /\ ~OccursAt(t, <<"0","0","0">>, i)
  /\ ~(OccursAt(t, <<"9">>, i) /\ Digits(t, i + 1, 2))

\* (?!00) at index i
GroupLookahead(t, i) == ~OccursAt(t, <<"0","0">>, i)

\* (?!0{4}) at index i
SerialLookahead(t, i) == ~OccursAt(t, <<"0","0","0","0">>, i)

\* the SSN pattern at index i without its (?!00)
SSNMatchEndAnyGroup(t, i) ==
  IF /\ SSNShapeAt(t, i)
     /\ AreaLookahead(t, i)
     /\ SerialLookahead(t, i + 7)
  THEN i + 10
  ELSE 0

\* the SSN pattern at index i
SSNMatchEnd(t, i) ==
  IF /\ SSNShapeAt(t, i)
     /\ AreaLookahead(t, i)
     /\ GroupLookahead(t, i + 4)
     /\ SerialLookahead(t, i + 7)
  THEN i + 10
  ELSE 0

\* the keys of the patterns dictionary
IDTypes == {"PHONE", "EMAIL", "SSN"}

MatchEnd(key, t, i) ==
  CASE key = "PHONE" -> PhoneMatchEnd(t, i)
    [] key = "EMAIL" -> EmailMatchEnd(t, i)
    [] key = "SSN"   -> SSNMatchEnd(t, i)

\* pattern.findall(text), as the set of the whole matches: the text is
\* scanned left to right and a match is followed from its end
RECURSIVE FindallFrom(_, _, _)
FindallFrom(key, t, i) ==
  IF i > Len(t) THEN {}
  ELSE LET e == MatchEnd(key, t, i)
       IN IF e > 0 THEN {SubSeq(t, i, e)} \cup FindallFrom(key, t, e + 1)
          ELSE FindallFrom(key, t, i + 1)

Findall(key, t) == FindallFrom(key, t, 1)

\* getIDInfo(text, types)
getIDInfo(t, types) == UNION {Findall(key, t) : key \in {k \in IDTypes : k \in types}}

\* -------------------------------------------------------- maskDirectories

\* mask_directory with the segment before a leading separator left as it is
mask_directory_keeping_root(path) ==
  LET norm  == [i \in 1..Len(path) |-> IF path[i] = "\\" THEN "/" ELSE path[i]]
      parts == Split(norm, "/")
      out   == [i \in 1..Len(parts) |->
                  IF i < Len(parts) /\ parts[i] # <<>> THEN Placeholder ELSE parts[i]]
  IN Join(IF Len(parts) > 1 THEN out ELSE parts, <<"/">>)

\* mask_directory(path)
mask_directory(path) ==
  LET norm  == [i \in 1..Len(path) |-> IF path[i] = "\\" THEN "/" ELSE path[i]]
      parts == Split(norm, "/")
      out   == [i \in 1..Len(parts) |-> IF i < Len(parts) THEN Placeholder ELSE parts[i]]
  IN Join(IF Len(parts) > 1 THEN out ELSE parts, <<"/">>)

\* the number of consecutive characters outside cls from index i on
RECURSIVE RunNot(_, _, _)
RunNot(t, i, cls) ==
  IF i <= Len(t) /\ t[i] \notin cls THEN 1 + RunNot(t, i + 1, cls) ELSE 0

\* dir_pattern, ([A-Za-z]:\\[^ \n\r\t]+|/[^ \n\r\t]+), at index i: the index
\* of the last character matched, 0 when it does not match at i
PathMatchEnd(t, i) ==
  LET drive == /\ i + 2 <= Len(t)
               /\ t[i] \in Letter /\ t[i + 1] = ":" /\ t[i + 2] = "\\"
               /\ RunNot(t, i + 3, PathStop) >= 1
      posix == /\ i <= Len(t)
               /\ t[i] = "/"
               /\ RunNot(t, i + 1, PathStop) >= 1
  IN IF drive THEN i + 2 + RunNot(t, i + 3, PathStop)
     ELSE IF posix THEN i + RunNot(t, i + 1, PathStop)
     ELSE 0

\* re.sub(dir_pattern, lambda m: mask_directory(m.group()), text) from index i
RECURSIVE SubFrom(_, _)
SubFrom(t, i) ==
  IF i > Len(t) THEN <<>>
  ELSE LET e == PathMatchEnd(t, i)
       IN IF e > 0 THEN mask_directory(SubSeq(t, i, e)) \o SubFrom(t, e + 1)
          ELSE <<t[i]>> \o SubFrom(t, i + 1)

\* maskDirectories(text)
maskDirectories(t) == SubFrom(t, 1)

\* ------------------------------------------------------------------ getNE

\* the characters word_tokenize makes a token of their own wherever they
\* stand (of the characters a text of the model holds)
TokenPunct == {"(", ")", "@"}

\* nltk.word_tokenize(text) from index i, each token as its first and last
\* index in the text: tokens end at whitespace, and a character of
\* TokenPunct is a token
RECURSIVE TokensFrom(_, _)
TokensFrom(t, i) ==
  IF i > Len(t) THEN <<>>
  ELSE IF t[i] \in Space THEN TokensFrom(t, i + 1)
  ELSE IF t[i] \in TokenPunct THEN <<[lo |-> i, hi |-> i]>> \o TokensFrom(t, i + 1)
  ELSE LET n == RunNot(t, i, Space \cup TokenPunct)
       IN <<[lo |-> i, hi |-> i + n - 1]>> \o TokensFrom(t, i + n)

word_tokenize(t) == TokensFrom(t, 1)

\* the word of a token
Word(t, tok) == SubSeq(t, tok.lo, tok.hi)

\* the labels ne_chunk gives a subtree
NELabels == {"PERSON", "ORGANIZATION", "GPE", "LOCATION", "FACILITY"}

\* The classifier is a black box to the program.  It is modelled as a
\* lexicon cls, a function from some words to labels: a token whose word is
\* in the lexicon carries that label, any other token carries "O".
LabelOf(cls, w) == IF w \in DOMAIN cls THEN cls[w] ELSE "O"

\* nltk.ne_chunk(nltk.pos_tag(tokens)): the subtrees below the root, each a
\* maximal run of adjacent tokens with one label, as [label, first, last]
\* over the indices of toks
ne_chunk(t, toks, cls) ==
  LET lab(k) == LabelOf(cls, Word(t, toks[k]))
      starts == {k \in 1..Len(toks) :
                   lab(k) # "O" /\ (k = 1 \/ lab(k - 1) # lab(k))}
      last(k) == CHOOSE m \in k..Len(toks) :
                   /\ \A j \in k..m : lab(j) = lab(k)
                   /\ (m = Len(toks) \/ lab(m + 1) # lab(k))
  IN {[label |-> lab(k), first |-> k, last |-> last(k)] : k \in starts}

\* " ".join(word for word, _ in subtree.leaves())
RECURSIVE JoinLeaves(_, _, _, _)
JoinLeaves(t, toks, first, last) ==
  IF first = last THEN Word(t, toks[first])
  ELSE Word(t, toks[first]) \o <<" ">> \o JoinLeaves(t, toks, first + 1, last)

\* the text a subtree covers in the input, whitespace as written
Surface(t, toks, st) == SubSeq(t, toks[st.first].lo, toks[st.last].hi)

\* {line.strip().lower() for line in file}
ReadExclusions(lines) == {LowerStr(Strip(lines[i])) : i \in 1..Len(lines)}

\* the subtrees ne.subtrees(lambda x: x.label() in piiNE) yields
Subtrees(t, cls, piiNE) ==
  {st \in ne_chunk(t, word_tokenize(t), cls) : st.label \in piiNE}

\* the loop of getNE: the entities that are not excluded
getNE(t, piiNE, cls, exclusions) ==
  LET toks == word_tokenize(t)
      ents == {JoinLeaves(t, toks, st.first, st.last) : st \in Subtrees(t, cls, piiNE)}
  IN {e \in ents : LowerStr(e) \notin exclusions}

\* ---------------------------------------------------------------- state

VARIABLES
  mode,            \* "string": the -s mode, cleanString; "file": the -f mode, cleanFile
  ext,             \* pathlib.Path(filePath).suffix
  input,           \* the -s argument, or the textual content of the input file
  argNE,           \* the piiNE argument: [given, cats], given = FALSE for None
  argNums,         \* the piiNums argument, likewise
  exclusionsFile,  \* exclusions.txt: [exists, lines]
  nltkData,        \* the NLTK resources: "present", "downloadable", "unavailable"
  lexicon,         \* the classifier (see LabelOf)
  twice,           \* whether the caller cleans the returned text once more
  pc,              \* where the invocation stands
  pass,            \* 1, or 2 in the second cleanString of a caller that cleans twice
  text,            \* the text parameter of cleanString
  piiNE,           \* cleanString's piiNE after line 86
  piiNums,         \* cleanString's piiNums after line 87
  piiSet,          \* getNE's set, then the union of line 91
  todo,            \* the strings of piiSet the for loop has still to visit
  cleaned,         \* the local cleaned
  returned,        \* whether cleanString has returned
  result,          \* what it returned
  first,           \* what the first of two cleanString calls returned
  error,           \* the exception that ended the invocation, "none" if none
  written,         \* whether writeFile has written the output path
  outFile          \* what was written

vars == <<mode, ext, input, argNE, argNums, exclusionsFile, nltkData, lexicon,
          twice, pc, pass, text, piiNE, piiNums, piiSet, todo, cleaned,
          returned, result, first, error, written, outFile>>

config == <<mode, ext, input, argNE, argNums, exclusionsFile, lexicon, twice>>

\* ----------------------------------------------------------- operations

\* the defaults of lines 86 and 87
DefaultNE == {"PERSON", "ORGANIZATION", "GPE", "LOCATION"}

DefaultNums == {"PHONE", "EMAIL", "SSN"}

\* "arg or default": None and the empty list are both falsy
OrDefault(arg, default) == IF arg.given /\ arg.cats # {} THEN arg.cats ELSE default

\* ensure_nltk_data(): nltk.download fetches what is missing when it can and
\* reports, without raising, when it cannot
ensure_nltk_data(data) == IF data = "downloadable" THEN "present" ELSE data

\* a loader that takes a missing exclusions.txt for an empty one
OpenExclusionsOrEmpty(file) ==
  IF file.exists THEN [ok |-> TRUE, set |-> ReadExclusions(file.lines)]
  ELSE [ok |-> TRUE, set |-> {}]

\* open(exclusions_file, "r") and the set comprehension of line 46
OpenExclusions(file) ==
  IF file.exists THEN [ok |-> TRUE, set |-> ReadExclusions(file.lines)]
  ELSE [ok |-> FALSE, set |-> {}]

\* the suffixes extract reads
Readable == {".txt", ".md", ".pdf", ".html", ".htm"}

\* cleanFile, line 107: extract(filePath); ValueError for any other suffix
Extract ==
  /\ pc = "start" /\ mode = "file"
  /\ IF ext \in Readable
     THEN /\ text' = input
          /\ pc' = "getNE"
          /\ error' = error
     ELSE /\ text' = text
          /\ pc' = "raised"
          /\ error' = "ValueError"
  /\ UNCHANGED <<config, nltkData, pass, piiNE, piiNums, piiSet, todo, cleaned,
                 returned, result, first, written, outFile>>

\* cleanString, lines 86 to 91, first half: the defaults, then getNE(text,
\* piiNE).  LookupError when the NLTK resources are missing after
\* ensure_nltk_data, FileNotFoundError when exclusions.txt is.
GetNE ==
  /\ pc = "getNE"
  /\ nltkData' = ensure_nltk_data(nltkData)
  /\ piiNE' = OrDefault(argNE, DefaultNE)
  /\ piiNums' = OrDefault(argNums, DefaultNums)
  /\ LET excl == OpenExclusions(exclusionsFile)
     IN IF nltkData' # "present"
        THEN /\ pc' = "raised" /\ error' = "LookupError" /\ piiSet' = piiSet
        ELSE IF ~excl.ok
        THEN /\ pc' = "raised" /\ error' = "FileNotFoundError" /\ piiSet' = piiSet
        ELSE /\ pc' = "getIDInfo" /\ error' = error
             /\ piiSet' = getNE(text, piiNE', lexicon, excl.set)
  /\ UNCHANGED <<config, pass, text, todo, cleaned, returned, result, first,
                 written, outFile>>

\* line 91, second half, and line 95: the union with getIDInfo(text, piiNums)
GetIDInfo ==
  /\ pc = "getIDInfo"
  /\ piiSet' = piiSet \cup getIDInfo(text, piiNums)
  /\ todo' = piiSet'
  /\ cleaned' = text
  /\ pc' = "replace"
  /\ UNCHANGED <<config, nltkData, pass, text, piiNE, piiNums, returned, result,
                 first, error, written, outFile>>

\* lines 96 and 97: one iteration of the loop over the set, whose order
\* Python leaves open
ReplaceOne ==
  /\ pc = "replace" /\ todo # {}
  /\ \E pii \in todo :
       /\ cleaned' = Replace(cleaned, pii, Placeholder)
       /\ todo' = todo \ {pii}
  /\ UNCHANGED <<config, nltkData, pc, pass, text, piiNE, piiNums, piiSet,
                 returned, result, first, error, written, outFile>>

\* lines 99 and 100: the loop is over; maskDirectories, and the return
MaskAndReturn ==
  /\ pc = "replace" /\ todo = {}
  /\ cleaned' = maskDirectories(cleaned)
  /\ result' = cleaned'
  /\ returned' = TRUE
  /\ pc' = IF mode = "file" THEN "write" ELSE "done"
  /\ UNCHANGED <<config, nltkData, pass, text, piiNE, piiNums, piiSet, todo,
                 first, error, written, outFile>>

\* cleanFile, line 114: writeFile(cleaned, outputPath)
WriteFile ==
  /\ pc = "write"
  /\ outFile' = result
  /\ written' = TRUE
  /\ pc' = "done"
  /\ UNCHANGED <<config, nltkData, pass, text, piiNE, piiNums, piiSet, todo,
                 cleaned, returned, result, first, error>>

\* a caller that passes what cleanString returned to cleanString again, with
\* the same categories and the same exclusions
CleanAgain ==
  /\ pc = "done" /\ mode = "string" /\ twice /\ pass = 1
  /\ first' = result
  /\ text' = result
  /\ pass' = 2
  /\ pc' = "getNE"
  /\ returned' = FALSE
  /\ result' = <<>>
  /\ UNCHANGED <<config, nltkData, piiNE, piiNums, piiSet, todo, cleaned,
                 error, written, outFile>>

Next ==
  \/ Extract
  \/ GetNE
  \/ GetIDInfo
  \/ ReplaceOne
  \/ MaskAndReturn
  \/ WriteFile
  \/ CleanAgain

\* --------------------------------------------------------------- inputs

\* the most words of a text of NameTexts
MaxTokens == 4

\* the most segments below the root of a path of PathTexts
MaxDepth == 3

\* two names and a common word, each one letter long
Words == {"J", "S", "a"}

\* the texts of k words, one space between two words
RECURSIVE WordTexts(_)
WordTexts(k) ==
  IF k = 1 THEN {<<w>> : w \in Words}
  ELSE {t \o <<" ", w>> : t \in WordTexts(k - 1), w \in Words}

NameTexts == UNION {WordTexts(k) : k \in 1..MaxTokens}

\* two names with other whitespace than one space between them
GapTexts == {<<"J">> \o gap \o <<"S">> : gap \in {<<" "," ">>, <<"\n">>, <<"\t">>}}

\* exclusions.txt missing, and four contents of it
NoExclusionsFile == [exists |-> FALSE, lines |-> <<>>]

ExclusionsFiles ==
  {[exists |-> TRUE, lines |-> ls] :
     ls \in { <<>>,
              << <<"j"," ","s","\n">> >>,
              << <<" ","J"," ","S"," ","\n">>, <<"a","\n">> >>,
              << <<"S","\n">> >> }}

\* three classifiers
NoEntities == [w \in {} |-> "O"]

People == [w \in {<<"J">>, <<"S">>} |-> "PERSON"]

Mixed == (<<"J">> :> "PERSON") @@ (<<"S">> :> "ORGANIZATION") @@ (<<"a">> :> "FACILITY")

None == [given |-> FALSE, cats |-> {}]

Given(cats) == [given |-> TRUE, cats |-> cats]

\* "Call me at (555) 123-4567 ext 22"
PhoneExample ==
  <<"C","a","l","l"," ","m","e"," ","a","t"," ","(","5","5","5",")",
    " ","1","2","3","-","4","5","6","7"," ","e","x","t"," ","2","2">>

\* "123-456-7890 and 456-7890"
TwoPhones ==
  <<"1","2","3","-","4","5","6","-","7","8","9","0"," ","a","n","d",
    " ","4","5","6","-","7","8","9","0">>

\* an optional lead, area code and separator, the exchange, an optional
\* separator, the line number, an optional extension
PhoneTexts ==
  {lead \o area \o s1 \o <<"4","5","6">> \o s2 \o <<"7","8","9","0">> \o extn :
     lead \in {<<>>, <<"C","a","l","l"," ">>},
     area \in {<<>>, <<"1","2","3">>, <<"(","1","2","3",")">>},
     s1 \in {<<>>, <<" ">>, <<"-">>, <<".">>},
     s2 \in {<<>>, <<" ">>, <<"-">>, <<".">>},
     extn \in {<<>>, <<" ","e","x","t"," ","2","2">>, <<"x","2","2">>, <<" ","e","x","t","."," ","2","2">>}}
  \cup {PhoneExample, TwoPhones}

\* "Contact: jane.doe@example.com for details"
EmailExample ==
  <<"C","o","n","t","a","c","t",":"," ","j","a","n","e",".","d","o",
    "e","@","e","x","a","m","p","l","e",".","c","o","m"," ","f","o",
    "r"," ","d","e","t","a","i","l","s">>

EmailTexts == {EmailExample, <<"j","@","s",".","a","b">>, <<"j","@","s",".","a">>, <<"a"," ","j","@","s",".","c","o",".","a","b","c","d","e","f">>}

\* every ddd-dd-dddd with its area number over 0, 1, 6, 9 and its group and
\* serial over 0, 1; and the two the documentation names
SsnTexts ==
  {a \o <<"-">> \o g \o <<"-">> \o n :
     a \in [1..3 -> {"0","1","6","9"}],
     g \in [1..2 -> {"0","1"}],
     n \in [1..4 -> {"0","1"}]}
  \cup {<<"1","2","3","-","4","5","-","6","7","8","9">>, <<"6","6","6","-","1","2","-","3","4","5","6">>}

\* "Report saved to /home/alice/reports/q1.txt"
ReportText ==
  <<"R","e","p","o","r","t"," ","s","a","v","e","d"," ","t","o"," ",
    "/","h","o","m","e","/","a","l","i","c","e","/","r","e","p","o",
    "r","t","s","/","q","1",".","t","x","t">>

\* the segments a and b, k of them, sep between two
RECURSIVE Segments(_, _)
Segments(k, sep) ==
  IF k = 1 THEN {<<"a">>, <<"b">>}
  ELSE {p \o sep \o seg : p \in Segments(k - 1, sep), seg \in {<<"a">>, <<"b">>}}

\* paths with a POSIX root, a drive root or no root, alone or after a word
PathTexts ==
  {lead \o root \o p :
     lead \in {<<>>, <<"a"," ">>},
     root \in {<<>>, <<"/">>, <<"C",":","\\">>},
     p \in UNION {Segments(k, sep) : k \in 1..MaxDepth, sep \in {<<"/">>, <<"\\">>}}}
  \cup {ReportText}

\* a few texts for the invocations that read a file or fail
SampleTexts == {<<"J"," ","S">>, <<"/","a","/","b">>, <<"1","2","3","-","4","5","-","6","7","8","9">>, PhoneExample}

InitNames ==
  /\ mode = "string" /\ ext = ""
  /\ input \in NameTexts \cup GapTexts
  /\ argNE \in {None, Given({}), Given({"PERSON"})}
  /\ argNums = None
  /\ exclusionsFile \in ExclusionsFiles
  /\ nltkData = "present"
  /\ lexicon \in {People, Mixed}
  /\ twice = TRUE

InitPhones ==
  /\ mode = "string" /\ ext = ""
  /\ input \in PhoneTexts \cup EmailTexts
  /\ argNE = None
  /\ argNums \in {None, Given({}), Given({"PHONE"}), Given({"EMAIL"})}
  /\ exclusionsFile \in {fl \in ExclusionsFiles : fl.lines = <<>>}
  /\ nltkData = "present"
  /\ lexicon = People
  /\ twice = FALSE

InitSsns ==
  /\ mode = "string" /\ ext = ""
  /\ input \in SsnTexts
  /\ argNE = None
  /\ argNums \in {Given({"SSN"})}
  /\ exclusionsFile \in {fl \in ExclusionsFiles : fl.lines = <<>>}
  /\ nltkData = "present"
  /\ lexicon = People
  /\ twice = FALSE

InitPaths ==
  /\ mode = "string" /\ ext = ""
  /\ input \in PathTexts
  /\ argNE = None
  /\ argNums = None
  /\ exclusionsFile \in {fl \in ExclusionsFiles : fl.lines = <<>>}
  /\ nltkData = "present"
  /\ lexicon \in {NoEntities, People}
  /\ twice = TRUE

InitFiles ==
  /\ mode \in {"string", "file"}
  /\ ext \in IF mode = "file" THEN Readable \cup {".docx"} ELSE {""}
  /\ input \in SampleTexts
  /\ argNE = None
  /\ argNums = None
  /\ exclusionsFile \in {NoExclusionsFile} \cup {fl \in ExclusionsFiles : Len(fl.lines) = 1}
  /\ nltkData \in {"present", "downloadable", "unavailable"}
  /\ lexicon = People
  /\ twice = FALSE

Init ==
  /\ InitNames \/ InitPhones \/ InitSsns \/ InitPaths \/ InitFiles
  /\ pc = IF mode = "file" THEN "start" ELSE "getNE"
  /\ text = IF mode = "file" THEN <<>> ELSE input
  /\ pass = 1
  /\ piiNE = {}
  /\ piiNums = {}
  /\ piiSet = {}
  /\ todo = {}
  /\ cleaned = <<>>
  /\ returned = FALSE
  /\ result = <<>>
  /\ first = <<>>
  /\ error = "none"
  /\ written = FALSE
  /\ outFile = <<>>

Spec == Init /\ [][Next]_vars

\* --------------------------------------------------------------- claims

\* the invocation is past line 91: piiSet is the union of the two matchers
Matched == pc \in {"replace", "write", "done"}

\* the exclusion set of the invocation
Excluded == ReadExclusions(exclusionsFile.lines)

\* the number of places where old occurs in s
Count(s, old) == Cardinality({i \in 1..Len(s) : OccursAt(s, old, i)})

\* C1: cleaning what cleanString returned, with the same categories and the
\* same exclusions, returns it unchanged.
Idempotent == (pc = "done" /\ pass = 2) => result = first

\* C2: a named entity whose lowercase form is in the exclusion set is not in
\* the PII set, and the output holds its text, as written in the input, at
\* least as often as the classifier found it there.
ExclusionsRespected ==
  pc = "done" =>
    LET toks == word_tokenize(text)
        entity(st) == JoinLeaves(text, toks, st.first, st.last)
        kept == {st \in Subtrees(text, lexicon, piiNE) : LowerStr(entity(st)) \in Excluded}
    IN \A st \in kept :
         /\ entity(st) \notin piiSet
         /\ Count(result, Surface(text, toks, st)) >=
              Cardinality({o \in kept : Surface(text, toks, o) = Surface(text, toks, st)})

\* C3: the text of every span the classifier labels with a requested
\* category and that is not excluded, as written in the input, and every
\* identifier match, occurs nowhere in the output.
EveryOccurrenceRedacted ==
  pc = "done" =>
    /\ \A st \in Subtrees(text, lexicon, piiNE) :
         LET toks == word_tokenize(text)
         IN LowerStr(JoinLeaves(text, toks, st.first, st.last)) \notin Excluded
              => ~Occurs(result, Surface(text, toks, st))
    /\ \A m \in getIDInfo(text, piiNums) : ~Occurs(result, m)

\* what the loop of lines 96 and 97 can leave in cleaned, over every order
\* of the set
RECURSIVE Outcomes(_, _)
Outcomes(s, set) ==
  IF set = {} THEN {s}
  ELSE UNION {Outcomes(Replace(s, pii, Placeholder), set \ {pii}) : pii \in set}

\* C4: whatever the order in which the strings of the PII set are replaced,
\* cleanString returns the same text.
OrderIndependent ==
  pc = "done" => \A o \in Outcomes(text, piiSet) : maskDirectories(o) = result

\* C5: with the classifier data unavailable or exclusions.txt missing, the
\* invocation never gets past getNE: cleanString returns nothing, nothing is
\* written to the output path, and the invocation ends in an exception.
NoPartialResult ==
  (nltkData = "unavailable" \/ ~exclusionsFile.exists) =>
    /\ ~returned
    /\ ~written
    /\ pc \in {"start", "getNE", "raised"}
    /\ (pc = "raised" => error # "none")

\* C5: exclusions.txt is missing, the classifier is there, and cleanFile has
\* ended in FileNotFoundError before writing.
FailedWithoutWriting ==
  /\ mode = "file" /\ pc = "raised" /\ error = "FileNotFoundError"
  /\ ~exclusionsFile.exists /\ nltkData = "present"
  /\ ~returned /\ ~written

\* the categories the caller asked for: the documented defaults when the
\* argument is None, else the set passed, the empty set included
Requested(arg, default) == IF arg.given THEN arg.cats ELSE default

\* C6: the PII set holds only entities with a label the caller asked for and
\* only matches of the patterns the caller asked for.
CallerChoosesCategories ==
  Matched =>
    piiSet \subseteq
      (getNE(text, Requested(argNE, DefaultNE), lexicon, {})
         \cup getIDInfo(text, Requested(argNums, DefaultNums)))

\* "Report saved to XXXXX/XXXXX/q1.txt"
ReportMaskedTwice ==
  <<"R","e","p","o","r","t"," ","s","a","v","e","d"," ","t","o"," ",
    "X","X","X","X","X","/","X","X","X","X","X","/","q","1",".","t",
    "x","t">>

\* "Report saved to XXXXX/XXXXX/XXXXX/XXXXX/q1.txt"
ReportMaskedFourTimes ==
  <<"R","e","p","o","r","t"," ","s","a","v","e","d"," ","t","o"," ",
    "X","X","X","X","X","/","X","X","X","X","X","/","X","X","X","X",
    "X","/","X","X","X","X","X","/","q","1",".","t","x","t">>

\* C7 as stated: with no PII found, the report text comes back with two
\* masked segments before q1.txt.
ReportPathAsStated ==
  (pc = "done" /\ text = ReportText /\ piiSet = {}) => result = ReportMaskedTwice

\* n times "XXXXX/"
RECURSIVE MaskedSegments(_)
MaskedSegments(n) == IF n = 0 THEN <<>> ELSE Placeholder \o <<"/">> \o MaskedSegments(n - 1)

\* a text that is one absolute path and nothing else
IsAbsolutePath(t) ==
  /\ \A i \in 1..Len(t) : t[i] \notin PathStop
  /\ \/ Len(t) >= 2 /\ t[1] = "/"
     \/ Len(t) >= 4 /\ t[1] \in Letter /\ t[2] = ":" /\ t[3] = "\\"

\* the indices of the separators of a path
Separators(t) == {i \in 1..Len(t) : t[i] \in {"/", "\\"}}

\* what follows the last separator of a path
LastSegment(t) ==
  LET last == CHOOSE i \in Separators(t) : \A j \in Separators(t) : j <= i
  IN SubSeq(t, last + 1, Len(t))

\* C7, amended: with no PII found, the report text comes back with four
\* masked segments before q1.txt, the empty one before the leading "/"
\* among them; and a text that is one absolute path comes back as one
\* "XXXXX/" for each "/" or "\" of it, followed by its last segment.
PathMaskingResult ==
  (pc = "done" /\ piiSet = {}) =>
    /\ text = ReportText => result = ReportMaskedFourTimes
    /\ IsAbsolutePath(text) =>
         result = MaskedSegments(Cardinality(Separators(text))) \o LastSegment(text)

\* C7: the report text has been cleaned with no PII found in it.
ReportPathMasked ==
  /\ pc = "done" /\ pass = 1 /\ text = ReportText /\ piiSet = {}
  /\ result = ReportMaskedFourTimes

\* no whitespace-delimited token of t begins with "/" or with a drive letter
\* followed by ":\"
NoAbsolutePathToken(t) ==
  \A i \in 1..Len(t) :
    ((i = 1 \/ t[i - 1] \in Space) /\ t[i] \notin Space) =>
      /\ t[i] # "/"
      /\ ~(i + 2 <= Len(t) /\ t[i] \in Letter /\ t[i + 1] = ":" /\ t[i + 2] = "\\")

\* C8: a text in which no PII is found and no token is an absolute path
\* comes back unchanged.
CleanTextUnchanged ==
  (pc = "done" /\ piiSet = {} /\ NoAbsolutePathToken(text)) => result = text

\* the forms the PHONE category lists, each with and without an extension
ListedPhones ==
  {form \o extn :
     form \in {<<"(","1","2","3",")"," ","4","5","6","-","7","8","9","0">>,
               <<"1","2","3","-","4","5","6","-","7","8","9","0">>,
               <<"1","2","3",".","4","5","6",".","7","8","9","0">>,
               <<"1","2","3","4","5","6","7","8","9","0">>},
     extn \in {<<>>, <<" ","e","x","t"," ","2","2">>, <<"x","2","2">>, <<" ","e","x","t","."," ","2","2">>}}

\* "Call me at XXXXX"
PhoneExampleCleaned ==
  <<"C","a","l","l"," ","m","e"," ","a","t"," ","X","X","X","X","X">>

\* C9: with PHONE requested, each listed form, alone or after "Call ", is one
\* match of getIDInfo, whole and nothing more; and the example text comes
\* back with its phone number and extension replaced by one placeholder.
PhoneFormsMatched ==
  (Matched /\ "PHONE" \in piiNums) =>
    /\ \A ph \in ListedPhones :
         (text = ph \/ text = <<"C","a","l","l"," ">> \o ph) => ph \in piiSet
    /\ (pc = "done" /\ text = PhoneExample) => result = PhoneExampleCleaned

\* the value of a digit
DigitValue(c) == CHOOSE n \in 0..9 : <<"0","1","2","3","4","5","6","7","8","9">>[n + 1] = c

\* the number the digits of t from index i to index j write
RECURSIVE Number(_, _, _)
Number(t, i, j) == IF j < i THEN 0 ELSE 10 * Number(t, i, j - 1) + DigitValue(t[j])

\* the issuance rules: an area number that is not 0, not 666 and below 900,
\* a group number that is not 0, a serial that is not 0
ValidSsn(t) ==
  /\ Number(t, 1, 3) \notin {0, 666}
  /\ Number(t, 1, 3) < 900
  /\ Number(t, 5, 6) # 0
  /\ Number(t, 8, 11) # 0

\* "123-45-6789"
IssuedSsn == <<"1","2","3","-","4","5","-","6","7","8","9">>

\* "666-12-3456"
UnissuedSsn == <<"6","6","6","-","1","2","-","3","4","5","6">>

\* C10: with SSN requested, a text of the shape ddd-dd-dddd is a match of
\* getIDInfo exactly when the issuance rules allow it; 123-45-6789 comes
\* back as the placeholder and 666-12-3456 is no match.
SsnPolicy ==
  (Matched /\ "SSN" \in piiNums /\ Len(text) = 11 /\ SSNShapeAt(text, 1)) =>
    /\ text \in piiSet <=> ValidSsn(text)
    /\ (pc = "done" /\ text = IssuedSsn) => result = Placeholder
    /\ text = UnissuedSsn => text \notin piiSet

\* C10: 123-45-6789 has been cleaned with SSN requested, and redacted.
IssuedSsnRedacted ==
  /\ pc = "done" /\ "SSN" \in piiNums /\ text = IssuedSsn
  /\ IssuedSsn \in piiSet /\ result = Placeholder

====
